---- MODULE Spec2Model ----
(***************************************************************************)
(* A model of denorm/fields.py: the Denorm rule engine (pre/post handlers, *)
(* update with its updating-set guard, rebuildall) running on top of a     *)
(* small row store.  Execution is synchronous and reentrant, so the call   *)
(* stack is explicit: `stack` holds one frame per save()/delete()/         *)
(* QuerySet.update() in progress, per Denorm.update() loop in progress and *)
(* per rebuildall() in progress.                                           *)
(***************************************************************************)
EXTENDS Integers, Sequences, FiniteSets, TLC

\* ------------------------------------------------------------------ bounds
\* number of top-level operations of one behaviour
MaxOps == 1
\* plain source field `base` ranges over 0..MaxBase
MaxBase == 1
\* before rebuildall() the stored denormalized values range over 0..MaxLoaded
MaxLoaded == 1
\* the saturating compute function stops at Cap
Cap == 2
\* the never-stabilising compute function counts modulo Modulus
Modulus == 3
\* recursion limit of the interpreter (frames on the call stack)
MaxDepth == 14
\* number of successive calls of rebuildall() of one behaviour
MaxRebuilds == 2
\* number of top-level operations of one behaviour in which a save may fail
\* or a post signal may come without its pre signal
MaxFailOps == 2
\* number of failing save() calls of one behaviour
MaxFails == 1

\* ------------------------------------------------------------ the row store
\* The rows of the three model classes X, Y, Z (primary keys).
XRows == {1}
YRows == {2, 3}
ZRows == {4}
Ids == XRows \cup YRows \cup ZRows
Models == {"X", "Y", "Z"}

modelOf(pk) ==
  IF pk \in XRows THEN "X" ELSE IF pk \in YRows THEN "Y" ELSE "Z"

RowsOf(m) ==
  {pk \in Ids : modelOf(pk) = m}

\* An in-memory model instance: the field values as they were loaded.
NoInst == [pk |-> 0, fk |-> 0, base |-> 0, den |-> 0]
NoRow == [exists |-> FALSE, fk |-> 0, base |-> 0, den |-> 0]

NoStore == [pk \in Ids |-> NoRow]

\* ------------------------------------------------------- rules (the Denorm)
\* A rule is one Denorm object: its model, its func (kind, field read) and
\* func.depend, the list of its dependency resolvers.
Backward(other) == [type |-> "backward", other |-> other]
Forward(other) == [type |-> "forward", other |-> other]

\* Y.den = number of Z rows whose fk points at the Y row
RYcountZ == [model |-> "Y", kind |-> "count", field |-> "fk", depend |-> <<Backward("Z")>>]
\* X.den = base of the Z row the X row points at
RXcopyZ == [model |-> "X", kind |-> "copy", field |-> "base", depend |-> <<Forward("Z")>>]
\* X.den = den of the Y row the X row points at
RXcopyY == [model |-> "X", kind |-> "copy", field |-> "den", depend |-> <<Forward("Y")>>]
\* X.den = min(den of the Y row + 1, Cap)
RXcapY == [model |-> "X", kind |-> "capinc", field |-> "den", depend |-> <<Forward("Y")>>]
\* X.den = (den of the Y row + 1) % Modulus
RXnextY == [model |-> "X", kind |-> "next", field |-> "den", depend |-> <<Forward("Y")>>]
\* Y.den = den of the X row the Y row points at
RYcopyX == [model |-> "Y", kind |-> "copy", field |-> "den", depend |-> <<Forward("X")>>]

\* The registries (alldenorms) the model is checked for, in both orders.
Registries ==
  { <<RYcountZ>>,
    <<RXcopyZ, RYcountZ>>, <<RYcountZ, RXcopyZ>>,
    <<RXcopyY, RYcountZ>>, <<RYcountZ, RXcopyY>>,
    <<RXcapY, RYcopyX>>, <<RYcopyX, RXcapY>>,
    <<RXnextY, RYcopyX>> }

VARIABLES
  alldenorms,   \* the registry: the sequence of rules, in declaration order
  db,           \* the stored rows: pk -> [exists, fk, base, den]
  updating,     \* rule index -> self.updating, a set of pks
  qs,           \* rule index -> [has, set]: whether self.qs exists, and its rows
  stack,        \* the call stack, innermost frame last
  ops,          \* the top-level operations so far: their number, the last one
                \* and its sender, whether the one before it was rebuildall()
                \* and whether update() made a save in the one before it, and
                \* the number of save() calls that raised
  writes,       \* the save() calls update() made in the current operation
  saved,        \* rule index -> pk -> the save() calls of the rule's update()
                \* for the row in the current operation
  fixed0,       \* whether db was a fixed point when the current operation began
  skipped,      \* <<rule, pk>> the guard of update() skipped in this operation
  replay        \* the mutation being run again under the other rule order

vars == <<alldenorms, db, updating, qs, stack, ops, writes, saved, fixed0, skipped, replay>>

Rules == DOMAIN alldenorms

\* The rule owning the denormalized field of model m, or 0.
RuleOf(reg, m) ==
  IF \E i \in DOMAIN reg : reg[i].model = m
  THEN CHOOSE i \in DOMAIN reg : reg[i].model = m
  ELSE 0

\* The model the foreign key of model m refers to under registry reg ("-": none).
fkTarget(reg, m) ==
  IF \E i \in DOMAIN reg : reg[i].model = m /\ reg[i].depend[1].type = "forward"
  THEN reg[CHOOSE i \in DOMAIN reg : reg[i].model = m /\ reg[i].depend[1].type = "forward"].depend[1].other
  ELSE IF \E i \in DOMAIN reg : reg[i].depend[1].type = "backward" /\ reg[i].depend[1].other = m
  THEN reg[CHOOSE i \in DOMAIN reg : reg[i].depend[1].type = "backward" /\ reg[i].depend[1].other = m].model
  ELSE "-"

\* Whether some rule reads the plain field `base` of model m.
BaseRead(reg, m) ==
  \E i \in DOMAIN reg : reg[i].field = "base" /\ reg[i].depend[1].other = m

\* Whether the dependency graph between the models has a cycle.
Cyclic(reg) ==
  \E i, j \in DOMAIN reg :
    /\ reg[i].depend[1].other = reg[j].model
    /\ reg[j].depend[1].other = reg[i].model

Min(a, b) == IF a < b THEN a ELSE b

\* ---------------------------------------------------------- compute function
\* The field of the row an instance's foreign key points at (0 without one).
Related(rule, inst, d) ==
  IF inst.fk \in Ids /\ d[inst.fk].exists /\ modelOf(inst.fk) = rule.depend[1].other
  THEN d[inst.fk][rule.field]
  ELSE 0

\* self.func(instance): evaluated on the in-memory instance and the stored rows.
func(rule, inst, d) ==
  CASE rule.kind = "count" ->
         Cardinality({s \in Ids : /\ d[s].exists
                                  /\ modelOf(s) = rule.depend[1].other
                                  /\ d[s].fk = inst.pk})
    [] rule.kind = "copy" -> Related(rule, inst, d)
    [] rule.kind = "capinc" -> Min(Related(rule, inst, d) + 1, Cap)
    [] OTHER -> (Related(rule, inst, d) + 1) % Modulus

\* The instance a query loads for row pk.
Load(d, pk) ==
  [pk |-> pk, fk |-> d[pk].fk, base |-> d[pk].base, den |-> d[pk].den]

\* Every stored denormalized field equals its compute function.
IsFixedPoint(reg, d) ==
  \A pk \in Ids :
    (d[pk].exists /\ RuleOf(reg, modelOf(pk)) # 0) =>
       d[pk].den = func(reg[RuleOf(reg, modelOf(pk))], Load(d, pk), d)

\* ------------------------------------------------------ dependency resolvers
\* changed_objs, a lazy query by primary key: the rows it yields now.
Changed(d, pks) ==
  {pk \in pks : d[pk].exists}

\* dependency.resolve(changed_objs): the rows of the rule's model affected by
\* the changed rows of the dependency's other model.
resolve(rule, dep, sender, changed, d) ==
  IF sender # dep.other THEN {}
  ELSE IF dep.type = "backward"
  THEN {pk \in RowsOf(rule.model) : d[pk].exists /\ \E c \in changed : d[c].fk = pk}
  ELSE {pk \in RowsOf(rule.model) : d[pk].exists /\ d[pk].fk \in changed}

\* The union over func.depend of resolve(changed_objs).
Resolved(rule, sender, changed, d) ==
  UNION {resolve(rule, rule.depend[k], sender, changed, d) : k \in DOMAIN rule.depend}

\* ---------------------------------------------------------------- the stack
Frame(kind, op, sender, pks, inst, pc, rule, todo, caller) ==
  [kind |-> kind, op |-> op, sender |-> sender, pks |-> pks, inst |-> inst,
   pc |-> pc, idx |-> 1, rule |-> rule, todo |-> todo, caller |-> caller,
   fk |-> 0, base |-> 0, created |-> FALSE,
   pre |-> [i \in Rules |-> {}], need |-> {}]

\* The frame of no call.
NoFrame ==
  [kind |-> "-", op |-> "-", sender |-> "-", pks |-> {}, inst |-> NoInst,
   pc |-> "-", idx |-> 1, rule |-> 0, todo |-> <<>>, caller |-> "-",
   fk |-> 0, base |-> 0, created |-> FALSE, pre |-> <<>>, need |-> {}]

Idle == stack = <<>>
Top == stack[Len(stack)]
Pop == SubSeq(stack, 1, Len(stack) - 1)
Push(f) == Append(stack, f)
SetTop(f) == [stack EXCEPT ![Len(stack)] = f]
CanPush == Len(stack) < MaxDepth

\* The receivers of a signal, in the order setup() connected them: for every
\* rule its general handler, then its handler bound to sender=self.model.
RECURSIVE Receivers(_, _, _, _)
Receivers(reg, i, own, sender) ==
  IF i > Len(reg) THEN <<>>
  ELSE <<[h |-> "all", rule |-> i]>>
       \o (IF own /\ reg[i].model = sender THEN <<[h |-> "own", rule |-> i]>> ELSE <<>>)
       \o Receivers(reg, i + 1, own, sender)

\* pre_save: pre_handler, self_save_handler; pre_delete: pre_handler;
\* pre_update: pre_update_handler.
PreReceivers(f) ==
  Receivers(alldenorms, 1, f.op = "save", f.sender)

\* post_save, post_delete: post_handler; post_update: post_update_handler,
\* self_update_handler.
PostReceivers(f) ==
  Receivers(alldenorms, 1, f.op = "bulk", f.sender)

\* ------------------------------------------------------------- initial state
\* The largest value a compute function returns.
DenTop ==
  LET S == {Cap, Modulus - 1, MaxBase, Cardinality(ZRows)}
  IN CHOOSE x \in S : \A y \in S : y <= x

\* The values row pk may hold under registry reg.
RowChoices(reg, pk) ==
  { [exists |-> TRUE, fk |-> f, base |-> b, den |-> v] :
      f \in {0} \cup RowsOf(fkTarget(reg, modelOf(pk))),
      b \in (IF BaseRead(reg, modelOf(pk)) THEN 0..MaxBase ELSE {0}),
      v \in (IF RuleOf(reg, modelOf(pk)) # 0 THEN 0..DenTop ELSE {0}) }
  \cup (IF pk \in ZRows THEN {NoRow} ELSE {})

RECURSIVE Stores(_, _)
Stores(reg, S) ==
  IF S = {} THEN {<<>>}
  ELSE LET pk == CHOOSE x \in S : TRUE
       IN {(pk :> r) @@ d : r \in RowChoices(reg, pk), d \in Stores(reg, S \ {pk})}

\* No foreign key refers to a row that does not exist.
WellFormed(d) ==
  \A pk \in Ids : d[pk].fk # 0 => (d[pk].exists /\ d[d[pk].fk].exists)

\* The engine as constructed, on the stored rows d.
InitOn(d) ==
  /\ db = d
  /\ updating = [i \in DOMAIN alldenorms |-> {}]
  /\ qs = [i \in DOMAIN alldenorms |-> [has |-> FALSE, set |-> {}]]
  /\ stack = <<>>
  /\ ops = [n |-> 0, op |-> "-", sender |-> "-", again |-> FALSE, before |-> FALSE,
            failed |-> 0]
  /\ writes = 0
  /\ saved = [i \in DOMAIN alldenorms |-> [pk \in Ids |-> 0]]
  /\ fixed0 = FALSE
  /\ skipped = {}
  /\ replay = [round |-> 0, db0 |-> NoStore, first |-> NoStore, frame |-> NoFrame]

\* The stored rows are consistent (every denormalized field equals its compute
\* function), or the denormalized fields were just added to the tables and
\* hold the default value 0.
Init ==
  /\ alldenorms \in Registries
  /\ \E d \in Stores(alldenorms, Ids) :
       /\ WellFormed(d)
       /\ \/ IsFixedPoint(alldenorms, d)
          \/ \A pk \in Ids : d[pk].den = 0
       /\ InitOn(d)

\* The denormalized fields were filled without the engine, with any values of
\* 0..MaxLoaded.
InitLoaded ==
  /\ alldenorms \in Registries
  /\ \E d \in Stores(alldenorms, Ids) :
       /\ WellFormed(d)
       /\ \A pk \in Ids : d[pk].den <= MaxLoaded
       /\ InitOn(d)

\* ------------------------------------------------------ top-level operations
\* The application starts operation `name`, at most `max` in one behaviour.
Begin(name, sender, max) ==
  /\ Idle
  /\ ops.n < max
  /\ LET again == (name = "rebuildall" /\ ops.op = "rebuildall")
     IN ops' = [n |-> ops.n + 1, op |-> name, sender |-> sender,
                again |-> again, before |-> (again /\ writes > 0),
                failed |-> ops.failed]
  /\ writes' = 0
  /\ saved' = [i \in Rules |-> [pk \in Ids |-> 0]]
  /\ fixed0' = IsFixedPoint(alldenorms, db)
  /\ skipped' = {}

FkChoices(m) ==
  {0} \cup {pk \in RowsOf(fkTarget(alldenorms, m)) : db[pk].exists}

BaseChoices(m) ==
  IF BaseRead(alldenorms, m) THEN 0..MaxBase ELSE {0}

\* instance.save() by the application: a new row (post_save will be sent with
\* created=True) or a changed one.
SaveCall(pk, f, b, max) ==
  /\ Begin("save", modelOf(pk), max)
  /\ stack' = Push([Frame("mut", "save", modelOf(pk), {pk},
                          [pk |-> pk, fk |-> f, base |-> b, den |-> db[pk].den],
                          "pre", 0, <<>>, "user")
                      EXCEPT !.created = ~db[pk].exists])
  /\ UNCHANGED <<alldenorms, db, updating, qs>>

\* instance.delete() by the application, of a row nothing refers to.
DeleteCall(pk, max) ==
  /\ Idle
  /\ db[pk].exists
  /\ \A o \in Ids : db[o].fk # pk
  /\ Begin("delete", modelOf(pk), max)
  /\ stack' = Push(Frame("mut", "delete", modelOf(pk), {pk}, Load(db, pk),
                         "pre", 0, <<>>, "user"))
  /\ UNCHANGED <<alldenorms, db, updating, qs>>

\* QuerySet.update(fk=f, base=b) by the application on the rows S of model m.
BulkUpdateCall(m, S, f, b, max) ==
  /\ Idle
  /\ S # {}
  /\ \A pk \in S : db[pk].exists
  /\ Begin("bulk", m, max)
  /\ stack' = Push([Frame("mut", "bulk", m, S, NoInst, "pre", 0, <<>>, "user")
                      EXCEPT !.fk = f, !.base = b])
  /\ UNCHANGED <<alldenorms, db, updating, qs>>

\* rebuildall() is called by the application.
RebuildallCall(max) ==
  /\ Begin("rebuildall", "-", max)
  /\ stack' = Push(Frame("reb", "-", "-", {}, NoInst, "loop", 0, <<>>, "user"))
  /\ UNCHANGED <<alldenorms, db, updating, qs>>

Save ==
  /\ Idle
  /\ \E pk \in Ids : \E f \in FkChoices(modelOf(pk)) : \E b \in BaseChoices(modelOf(pk)) :
       SaveCall(pk, f, b, MaxOps)
  /\ UNCHANGED replay

Delete ==
  /\ \E pk \in Ids : DeleteCall(pk, MaxOps)
  /\ UNCHANGED replay

BulkUpdate ==
  /\ Idle
  /\ \E m \in Models : \E S \in SUBSET RowsOf(m) :
       \E f \in FkChoices(m) : \E b \in BaseChoices(m) : BulkUpdateCall(m, S, f, b, MaxOps)
  /\ UNCHANGED replay

Rebuildall ==
  /\ RebuildallCall(MaxOps)
  /\ UNCHANGED replay

\* ------------------------------------------------------------ Denorm methods
\* pre_update_handler that adds the changed rows of the rule's own model.
pre_update_handler_identity(i, sender, changed) ==
  [has |-> TRUE,
   set |-> Resolved(alldenorms[i], sender, changed, db)
             \cup (IF sender = alldenorms[i].model THEN changed ELSE {})]

\* pre_update_handler: self.qs after it, the union of the resolvers' results.
pre_update_handler(i, sender, changed) ==
  [has |-> TRUE, set |-> Resolved(alldenorms[i], sender, changed, db)]

\* post_update_handler up to its call of update(): self.qs, created if missing
\* and joined with the resolvers' results on the state after the change.
post_update_handler(i, sender, changed) ==
  [has |-> TRUE,
   set |-> (IF qs[i].has THEN qs[i].set ELSE {})
             \cup Resolved(alldenorms[i], sender, changed, db)]

\* post_update_handler after update() returned: del self.qs unless updating.
post_update_handler_end(i) ==
  IF updating[i] = {} THEN [has |-> FALSE, set |-> {}] ELSE qs[i]

\* self_save_handler with its test of self.updating inverted.
self_save_handler_inverted(i, inst) ==
  IF inst.pk \in updating[i]
  THEN [inst EXCEPT !.den = func(alldenorms[i], inst, db)]
  ELSE inst

\* self_save_handler: the instance as it goes on to be written.
self_save_handler(i, inst) ==
  IF inst.pk \notin updating[i]
  THEN [inst EXCEPT !.den = func(alldenorms[i], inst, db)]
  ELSE inst

\* qs.distinct() evaluated: the instances of the existing rows of S, loaded
\* once, in primary-key order.
RECURSIVE Distinct(_, _)
Distinct(d, S) ==
  LET E == {pk \in S : d[pk].exists}
  IN IF E = {} THEN <<>>
     ELSE LET lo == CHOOSE x \in E : \A y \in E : x <= y
          IN <<Load(d, lo)>> \o Distinct(d, E \ {lo})

\* update() without its guard on self.updating.
update_unguarded(i, inst) ==
  IF inst.den = func(alldenorms[i], inst, db) THEN "same" ELSE "write"

\* update() with its comparison of the old and the new value inverted.
update_inverted(i, inst) ==
  IF inst.pk \in updating[i] THEN "skip"
  ELSE IF inst.den = func(alldenorms[i], inst, db) THEN "write"
  ELSE "same"

\* One iteration of the loop of update(): what happens to the instance.
update(i, inst) ==
  IF inst.pk \in updating[i] THEN "skip"
  ELSE IF inst.den = func(alldenorms[i], inst, db) THEN "same"
  ELSE "write"

\* The frame of a call of update() by rule i on the rows S.
UpdateFrame(i, S, caller) ==
  Frame("upd", "-", alldenorms[i].model, S, NoInst, "loop", i, Distinct(db, S), caller)

\* What the row store holds once the mutation of frame f is written.
Written(f) ==
  CASE f.op = "save" ->
         [db EXCEPT ![f.inst.pk] = [exists |-> TRUE, fk |-> f.inst.fk,
                                    base |-> f.inst.base, den |-> f.inst.den]]
    [] f.op = "delete" -> [pk \in Ids |-> IF pk \in f.pks THEN NoRow ELSE db[pk]]
    [] OTHER ->
         [pk \in Ids |-> IF pk \in Changed(db, f.pks)
                         THEN [db[pk] EXCEPT !.fk = f.fk, !.base = f.base]
                         ELSE db[pk]]

\* ------------------------------------------------------- steps of a mutation
InPre ==
  /\ ~Idle
  /\ Top.kind = "mut"
  /\ Top.pc = "pre"

InPost ==
  /\ ~Idle
  /\ Top.kind = "mut"
  /\ Top.pc = "post"

\* pre_save / pre_delete / pre_update reaches pre_handler of the next rule.
PreHandler ==
  /\ InPre
  /\ Top.idx <= Len(PreReceivers(Top))
  /\ LET r == PreReceivers(Top)[Top.idx]
         new == pre_update_handler(r.rule, Top.sender, Changed(db, Top.pks))
     IN /\ r.h = "all"
        /\ qs' = [qs EXCEPT ![r.rule] = new]
        /\ stack' = SetTop([Top EXCEPT !.idx = @ + 1, !.pre[r.rule] = new.set])
  /\ UNCHANGED <<alldenorms, db, updating, ops, writes, saved, fixed0, skipped, replay>>

\* pre_save reaches self_save_handler of the rule of the sender's model.
SelfSaveHandler ==
  /\ InPre
  /\ Top.idx <= Len(PreReceivers(Top))
  /\ LET r == PreReceivers(Top)[Top.idx]
     IN /\ r.h = "own"
        /\ stack' = SetTop([Top EXCEPT !.idx = @ + 1,
                                       !.inst = self_save_handler(r.rule, Top.inst)])
  /\ UNCHANGED <<alldenorms, db, updating, qs, ops, writes, saved, fixed0, skipped, replay>>

\* All pre receivers ran: the row store applies the mutation.
Write ==
  /\ InPre
  /\ Top.idx > Len(PreReceivers(Top))
  /\ db' = Written(Top)
  /\ stack' = SetTop([Top EXCEPT !.pc = "post", !.idx = 1])
  /\ UNCHANGED <<alldenorms, updating, qs, ops, writes, saved, fixed0, skipped, replay>>

\* post_save / post_delete / post_update reaches post_handler of the next
\* rule, which calls update(self.qs).
PostHandler ==
  /\ InPost
  /\ Top.idx <= Len(PostReceivers(Top))
  /\ CanPush
  /\ LET r == PostReceivers(Top)[Top.idx]
         i == r.rule
         new == post_update_handler(i, Top.sender, Changed(db, Top.pks))
         need == Top.pre[i] \cup Resolved(alldenorms[i], Top.sender, Changed(db, Top.pks), db)
     IN /\ r.h = "all"
        /\ qs' = [qs EXCEPT ![i] = new]
        /\ stack' = Append(SetTop([Top EXCEPT !.idx = @ + 1]),
                           [UpdateFrame(i, new.set, "post") EXCEPT !.need = need])
  /\ UNCHANGED <<alldenorms, db, updating, ops, writes, saved, fixed0, skipped, replay>>

\* post_update reaches self_update_handler, which calls update(changed_objs).
SelfUpdateHandler ==
  /\ InPost
  /\ Top.idx <= Len(PostReceivers(Top))
  /\ CanPush
  /\ LET r == PostReceivers(Top)[Top.idx]
     IN /\ r.h = "own"
        /\ stack' = Append(SetTop([Top EXCEPT !.idx = @ + 1]),
                           UpdateFrame(r.rule, Changed(db, Top.pks), "self"))
  /\ UNCHANGED <<alldenorms, db, updating, qs, ops, writes, saved, fixed0, skipped, replay>>

\* All post receivers ran: save() / delete() / QuerySet.update() returns.
MutationReturn ==
  /\ InPost
  /\ Top.idx > Len(PostReceivers(Top))
  /\ stack' = Pop
  /\ UNCHANGED <<alldenorms, db, updating, qs, ops, writes, saved, fixed0, skipped, replay>>

\* ------------------------------------------------------- the loop of update()
InLoop ==
  /\ ~Idle
  /\ Top.kind = "upd"
  /\ Top.pc = "loop"
  /\ Top.todo # <<>>

\* The instance's pk is in self.updating: nothing is done for it.
UpdateSkip ==
  /\ InLoop
  /\ update(Top.rule, Head(Top.todo)) = "skip"
  /\ stack' = SetTop([Top EXCEPT !.todo = Tail(@)])
  /\ skipped' = skipped \cup {<<Top.rule, Head(Top.todo).pk>>}
  /\ UNCHANGED <<alldenorms, db, updating, qs, ops, writes, saved, fixed0, replay>>

\* func(instance) equals the instance's field: nothing is written.
UpdateSame ==
  /\ InLoop
  /\ update(Top.rule, Head(Top.todo)) = "same"
  /\ stack' = SetTop([Top EXCEPT !.todo = Tail(@)])
  /\ UNCHANGED <<alldenorms, db, updating, qs, ops, writes, saved, fixed0, skipped, replay>>

\* The value changed: setattr, self.updating.add(pk), instance.save().
UpdateWrite ==
  /\ InLoop
  /\ update(Top.rule, Head(Top.todo)) = "write"
  /\ CanPush
  /\ LET i == Top.rule
         inst == [Head(Top.todo) EXCEPT !.den = func(alldenorms[i], Head(Top.todo), db)]
     IN /\ updating' = [updating EXCEPT ![i] = @ \cup {inst.pk}]
        /\ stack' = Append(SetTop([Top EXCEPT !.todo = Tail(@), !.pc = "saving",
                                              !.inst = inst]),
                           Frame("mut", "save", alldenorms[i].model, {inst.pk}, inst,
                                 "pre", i, <<>>, "update"))
  /\ writes' = writes + 1
  /\ saved' = [saved EXCEPT ![Top.rule][Head(Top.todo).pk] = @ + 1]
  /\ UNCHANGED <<alldenorms, db, qs, ops, fixed0, skipped, replay>>

\* instance.save() returned: self.updating.remove(pk).
UpdateSaved ==
  /\ ~Idle
  /\ Top.kind = "upd"
  /\ Top.pc = "saving"
  /\ updating' = [updating EXCEPT ![Top.rule] = @ \ {Top.inst.pk}]
  /\ stack' = SetTop([Top EXCEPT !.pc = "loop", !.inst = NoInst])
  /\ UNCHANGED <<alldenorms, db, qs, ops, writes, saved, fixed0, skipped, replay>>

\* The loop is over: update() returns to its caller; post_update_handler
\* then deletes self.qs unless self.updating is non-empty.
UpdateReturn ==
  /\ ~Idle
  /\ Top.kind = "upd"
  /\ Top.pc = "loop"
  /\ Top.todo = <<>>
  /\ qs' = IF Top.caller = "post"
           THEN [qs EXCEPT ![Top.rule] = post_update_handler_end(Top.rule)]
           ELSE qs
  /\ stack' = Pop
  /\ UNCHANGED <<alldenorms, db, updating, ops, writes, saved, fixed0, skipped, replay>>

\* ---------------------------------------------------------------- rebuildall
\* Only the first row of the model of rule i.
objects_first(i) ==
  {pk \in RowsOf(alldenorms[i].model) : \A o \in RowsOf(alldenorms[i].model) : pk <= o}

\* denorm.model.objects.all(): the rows of the model of rule i.
objects_all(i) ==
  RowsOf(alldenorms[i].model)

\* for denorm in alldenorms: denorm.update(denorm.model.objects.all())
rebuildall ==
  /\ ~Idle
  /\ Top.kind = "reb"
  /\ Top.idx <= Len(alldenorms)
  /\ CanPush
  /\ stack' = Append(SetTop([Top EXCEPT !.idx = @ + 1]),
                     UpdateFrame(Top.idx, objects_all(Top.idx), "reb"))
  /\ UNCHANGED <<alldenorms, db, updating, qs, ops, writes, saved, fixed0, skipped, replay>>

RebuildallReturn ==
  /\ ~Idle
  /\ Top.kind = "reb"
  /\ Top.idx > Len(alldenorms)
  /\ stack' = Pop
  /\ UNCHANGED <<alldenorms, db, updating, qs, ops, writes, saved, fixed0, skipped, replay>>

\* ------------------------------------------------------------ specification
\* A step of the operation in progress.
Step ==
  \/ PreHandler
  \/ SelfSaveHandler
  \/ Write
  \/ PostHandler
  \/ SelfUpdateHandler
  \/ MutationReturn
  \/ UpdateSkip
  \/ UpdateSame
  \/ UpdateWrite
  \/ UpdateSaved
  \/ UpdateReturn
  \/ rebuildall
  \/ RebuildallReturn

Next ==
  \/ Save
  \/ Delete
  \/ BulkUpdate
  \/ Rebuildall
  \/ Step

Spec == Init /\ [][Next]_vars

\* Successive calls of rebuildall() with no mutation in between.
RebuildallAgain ==
  /\ RebuildallCall(MaxRebuilds)
  /\ UNCHANGED replay

NextRebuild ==
  \/ RebuildallAgain
  \/ PreHandler
  \/ SelfSaveHandler
  \/ Write
  \/ PostHandler
  \/ MutationReturn
  \/ UpdateSkip
  \/ UpdateSame
  \/ UpdateWrite
  \/ UpdateSaved
  \/ UpdateReturn
  \/ rebuildall
  \/ RebuildallReturn

RebuildSpec == InitLoaded /\ [][NextRebuild]_vars

\* The same, with the operation in progress always carried on.
LiveSpec == Init /\ [][Next]_vars /\ WF_vars(Step)

\* ------------------------------------------------- the other order of rules
\* The application makes one mutation; it is recorded to be run again.
StartMutation ==
  /\ Idle
  /\ \/ \E pk \in Ids : \E f \in FkChoices(modelOf(pk)) : \E b \in BaseChoices(modelOf(pk)) :
          SaveCall(pk, f, b, MaxOps)
     \/ \E pk \in Ids : DeleteCall(pk, MaxOps)
     \/ \E m \in Models : \E S \in SUBSET RowsOf(m) :
          \E f \in FkChoices(m) : \E b \in BaseChoices(m) : BulkUpdateCall(m, S, f, b, MaxOps)
  /\ replay' = [round |-> 1, db0 |-> db, first |-> db, frame |-> stack'[1]]

StepMutation ==
  \/ PreHandler
  \/ SelfSaveHandler
  \/ Write
  \/ PostHandler
  \/ SelfUpdateHandler
  \/ MutationReturn
  \/ UpdateSkip
  \/ UpdateSame
  \/ UpdateWrite
  \/ UpdateSaved
  \/ UpdateReturn

Reverse(reg) ==
  [k \in DOMAIN reg |-> reg[Len(reg) + 1 - k]]

\* The cascade has ended: the same mutation is made on the same stored rows
\* with the rules declared, and so their handlers connected, in reverse order.
Replay ==
  /\ Idle
  /\ replay.round = 1
  /\ Len(alldenorms) > 1
  /\ alldenorms' = Reverse(alldenorms)
  /\ db' = replay.db0
  /\ updating' = [i \in Rules |-> {}]
  /\ qs' = [i \in Rules |-> [has |-> FALSE, set |-> {}]]
  /\ stack' = <<replay.frame>>
  /\ writes' = 0
  /\ saved' = [i \in Rules |-> [pk \in Ids |-> 0]]
  /\ skipped' = {}
  /\ replay' = [replay EXCEPT !.round = 2, !.first = db]
  /\ UNCHANGED <<ops, fixed0>>

NextOrder ==
  \/ StartMutation
  \/ StepMutation
  \/ Replay

OrderSpec == Init /\ [][NextOrder]_vars

\* ------------------------------------------------------------ a failing save
\* instance.save() called by update() raises when the row is to be written.
\* Nothing in fields.py catches an exception, so it passes through update(),
\* the handlers and every save() around them up to the application:
\* self.updating.remove(pk) and del self.qs are not run on the way. Rows
\* written earlier in the cascade stay written.
SaveRaises ==
  /\ InPre
  /\ Top.idx > Len(PreReceivers(Top))
  /\ Top.caller = "update"
  /\ ops.failed < MaxFails
  /\ stack' = <<>>
  /\ ops' = [ops EXCEPT !.failed = @ + 1]
  /\ UNCHANGED <<alldenorms, db, updating, qs, writes, saved, fixed0, skipped, replay>>

SaveLater ==
  /\ Idle
  /\ \E pk \in Ids : \E f \in FkChoices(modelOf(pk)) : \E b \in BaseChoices(modelOf(pk)) :
       SaveCall(pk, f, b, MaxFailOps)
  /\ UNCHANGED replay

DeleteLater ==
  /\ \E pk \in Ids : DeleteCall(pk, MaxFailOps)
  /\ UNCHANGED replay

BulkUpdateLater ==
  /\ Idle
  /\ \E m \in Models : \E S \in SUBSET RowsOf(m) :
       \E f \in FkChoices(m) : \E b \in BaseChoices(m) :
         BulkUpdateCall(m, S, f, b, MaxFailOps)
  /\ UNCHANGED replay

RebuildallLater ==
  /\ RebuildallCall(MaxFailOps)
  /\ UNCHANGED replay

NextFail ==
  \/ SaveLater
  \/ DeleteLater
  \/ BulkUpdateLater
  \/ RebuildallLater
  \/ SaveRaises
  \/ PreHandler
  \/ SelfSaveHandler
  \/ Write
  \/ PostHandler
  \/ SelfUpdateHandler
  \/ MutationReturn
  \/ UpdateSkip
  \/ UpdateSame
  \/ UpdateWrite
  \/ UpdateSaved
  \/ UpdateReturn
  \/ rebuildall
  \/ RebuildallReturn

\* Operations in which a save() made by update() may raise.
FailSpec == Init /\ [][NextFail]_vars

\* ------------------------------------------- a post signal without pre signal
\* A row is deleted and post_delete is sent for it although pre_delete was not
\* ("If we've gone straight to a delete, there'll be no self.qs"): no rule's
\* pre_handler ran for this deletion.
DeleteStraight ==
  /\ \E pk \in Ids :
       /\ Idle
       /\ db[pk].exists
       /\ \A o \in Ids : db[o].fk # pk
       /\ Begin("delete", modelOf(pk), MaxFailOps)
       /\ db' = [db EXCEPT ![pk] = NoRow]
       /\ stack' = Push(Frame("mut", "delete", modelOf(pk), {pk}, Load(db, pk),
                              "post", 0, <<>>, "nopre"))
  /\ UNCHANGED <<alldenorms, updating, qs, replay>>

NextStraight ==
  \/ SaveLater
  \/ DeleteLater
  \/ BulkUpdateLater
  \/ RebuildallLater
  \/ DeleteStraight
  \/ PreHandler
  \/ SelfSaveHandler
  \/ Write
  \/ PostHandler
  \/ SelfUpdateHandler
  \/ MutationReturn
  \/ UpdateSkip
  \/ UpdateSame
  \/ UpdateWrite
  \/ UpdateSaved
  \/ UpdateReturn
  \/ rebuildall
  \/ RebuildallReturn

\* Operations among which a deletion may come without its pre signal.
StraightSpec == Init /\ [][NextStraight]_vars

\* ------------------------------------------------------------------- sanity
TypeOK ==
  /\ Len(stack) < MaxDepth
  /\ \A i \in Rules : updating[i] \subseteq RowsOf(alldenorms[i].model)
  /\ \A i \in Rules : qs[i].set \subseteq RowsOf(alldenorms[i].model)

\* -------------------------------------------------------------------- claims
\* The frames of update() of rule i that are inside instance.save().
Saving(i) ==
  {a \in DOMAIN stack : stack[a].kind = "upd" /\ stack[a].pc = "saving" /\ stack[a].rule = i}

\* C1 (cycle safety): no rule has two save() calls of update() in progress for
\* the same row, and every add to self.updating added a new member, so the
\* updating-set has as many members as the rule has saves in progress.
C1_CycleSafety ==
  \A i \in Rules :
    /\ \A a, b \in Saving(i) : a # b => stack[a].inst.pk # stack[b].inst.pk
    /\ Cardinality(updating[i]) = Cardinality(Saving(i))

\* C1 witness: inside a cascade, update() met a row whose save by the same
\* rule is still in progress, and skipped it.
C1_Witness ==
  \E i \in Rules : \E a \in Saving(i) :
    /\ <<i, stack[a].inst.pk>> \in skipped
    /\ stack[a].inst.pk \in updating[i]

\* C2 (termination): whatever the registry (cyclic ones and never-stabilising
\* compute functions included), an operation that was started ends: the call
\* stack empties again.
C2_Termination ==
  (~Idle) ~> Idle

\* C2 witness: an operation on a cyclic registry whose compute functions have
\* no common fixed point has ended, after the guard of update() cut the cycle.
C2_Witness ==
  /\ Idle
  /\ ops.n > 0
  /\ \E i \in Rules : alldenorms[i].kind = "next"
  /\ writes > 0
  /\ skipped # {}
  /\ ~IsFixedPoint(alldenorms, db)

\* The operation that just ended was one mutation of a row of a model that
\* owns no denormalized field, on an acyclic registry of several rules, begun
\* in a fixed point.
AcyclicMutationDone ==
  /\ Idle
  /\ ops.n = 1
  /\ ops.op \in {"save", "delete", "bulk"}
  /\ RuleOf(alldenorms, ops.sender) = 0
  /\ Len(alldenorms) > 1
  /\ ~Cyclic(alldenorms)
  /\ fixed0

\* C3 (convergence on acyclic graphs): such a mutation ends in a fixed point.
C3_AcyclicConvergence ==
  AcyclicMutationDone => IsFixedPoint(alldenorms, db)

\* The operation that just ended was one mutation on a cyclic registry whose
\* compute functions have a common fixed point, begun in a fixed point.
CyclicMutationDone ==
  /\ Idle
  /\ ops.n = 1
  /\ ops.op \in {"save", "delete", "bulk"}
  /\ Cyclic(alldenorms)
  /\ \A i \in Rules : alldenorms[i].kind # "next"
  /\ fixed0

Stale(reg, d) ==
  {pk \in Ids : /\ d[pk].exists
                /\ RuleOf(reg, modelOf(pk)) # 0
                /\ d[pk].den # func(reg[RuleOf(reg, modelOf(pk))], Load(d, pk), d)}

C5_NoWriteOnNoChange ==
  \A a \in DOMAIN stack :
    (/\ stack[a].kind = "upd"
     /\ stack[a].pc = "saving"
     /\ a < Len(stack)
     /\ stack[a + 1].pc = "pre") =>
       stack[a].inst.den # db[stack[a].inst.pk].den

\* C6 (pre/post symmetry): the rows post_update_handler passes to update()
\* include every row the rule's resolvers returned before the mutation and
\* every row they returned after it.
C6_PrePostSymmetry ==
  \A a \in DOMAIN stack :
    (stack[a].kind = "upd" /\ stack[a].caller = "post") =>
       stack[a].need \subseteq stack[a].pks

\* A second rebuildall() in a row has returned.
SecondRebuildDone ==
  /\ Idle
  /\ ops.op = "rebuildall"
  /\ ops.again

\* C7 (idempotence of rebuildall): the second of two calls of rebuildall() in
\* a row makes no save().
C7_RebuildIdempotent ==
  SecondRebuildDone => writes = 0

\* C7 as amended: the second call makes no save() on an acyclic registry, and
\* on a cyclic one when the first call ended in a fixed point.
C7_RebuildIdempotentAcyclic ==
  (SecondRebuildDone /\ (~Cyclic(alldenorms) \/ fixed0)) => writes = 0

\* C7 witness: on an acyclic registry of two rules the first call of
\* rebuildall() made saves and the second one, now over, made none.
C7_Witness ==
  /\ SecondRebuildDone
  /\ ~Cyclic(alldenorms)
  /\ Len(alldenorms) = 2
  /\ ops.before
  /\ writes = 0

\* C8 (full rebuild): on an acyclic registry, in either order of its rules,
\* rebuildall() returns with every denormalized field equal to its compute
\* function, whatever was stored before.
C8_FullRebuild ==
  (/\ Idle
   /\ ops.op = "rebuildall"
   /\ ~Cyclic(alldenorms)) => IsFixedPoint(alldenorms, db)

\* C8 witness: rebuildall() has returned on an acyclic registry of two rules
\* whose stored values were not a fixed point, after saving several rows.
C8_Witness ==
  /\ Idle
  /\ ops.op = "rebuildall"
  /\ ~Cyclic(alldenorms)
  /\ Len(alldenorms) = 2
  /\ ~fixed0
  /\ writes >= 2

\* C9 (self pre-save): when a save() of a row of a rule's model is about to be
\* written, the value of the denormalized field it carries is func(instance)
\* on the rows stored before the write if the row is not in self.updating, and
\* the value update() computed for it if it is.
C9_SelfPreSave ==
  (/\ InPre
   /\ Top.op = "save"
   /\ Top.idx > Len(PreReceivers(Top))
   /\ RuleOf(alldenorms, Top.sender) # 0) =>
     LET i == RuleOf(alldenorms, Top.sender)
     IN IF Top.inst.pk \notin updating[i]
        THEN Top.inst.den = func(alldenorms[i], Top.inst, db)
        ELSE /\ Len(stack) > 1
             /\ stack[Len(stack) - 1].kind = "upd"
             /\ stack[Len(stack) - 1].rule = i
             /\ stack[Len(stack) - 1].inst = Top.inst

\* C9 witness: inside the cascade of a direct save of a row of a rule's model,
\* written with the value the pre-save handler computed, a save made by
\* update() is about to be written.
C9_Witness ==
  /\ InPre
  /\ Top.op = "save"
  /\ Top.idx > Len(PreReceivers(Top))
  /\ Top.rule # 0
  /\ Top.inst.pk \in updating[Top.rule]
  /\ stack[1].op = "save"
  /\ RuleOf(alldenorms, stack[1].sender) # 0
  /\ stack[1].rule = 0
  /\ stack[1].inst.den > 0

\* C10 (rule order independence): a mutation run again from the same stored
\* rows with the rules in the other order ends with the same stored rows.
C10_OrderIndependent ==
  (Idle /\ replay.round = 2) => db = replay.first

\* The outermost call is a creation or a deletion of a row of a model that a
\* counting rule depends on, which no rule reads in turn; the row refers to
\* a row of the rule's model; every receiver of the post signal has returned,
\* and the stored rows were a fixed point when the call began.
LeafMutationOver ==
  /\ Len(stack) = 1
  /\ InPost
  /\ Top.idx > Len(PostReceivers(Top))
  /\ \/ Top.op = "save" /\ Top.created
     \/ Top.op = "delete"
  /\ Top.inst.fk # 0
  /\ fixed0
  /\ LET i == RuleOf(alldenorms, modelOf(Top.inst.fk))
     IN /\ i # 0
        /\ alldenorms[i].kind = "count"
        /\ alldenorms[i].depend[1].other = Top.sender
        /\ \A j \in Rules : alldenorms[j].depend[1].other # alldenorms[i].model

C12_UpdatingWindow ==
  \A i \in Rules : updating[i] = {stack[a].inst.pk : a \in Saving(i)}

\* C13 (impact set is transient): when no call is running, and so no handler
\* of any rule, a rule whose self.updating is empty has no self.qs.
C13_ImpactSetTransient ==
  Idle => \A i \in Rules : updating[i] = {} => ~qs[i].has

\* C14 (post-phase without pre-phase): when post_update_handler runs for a
\* mutation whose pre signal did not reach the rule, the rows it passes to
\* update() are exactly the rows its resolvers return on the state after the
\* mutation.
C14_PostWithoutPre ==
  \A a \in DOMAIN stack :
    (/\ a > 1
     /\ stack[a].kind = "upd"
     /\ stack[a].caller = "post"
     /\ stack[a - 1].caller = "nopre") =>
       stack[a].pks = stack[a].need

\* The rules whose pre_handler has run for the mutation that is in its
\* pre-phase.
PreDone ==
  {PreReceivers(Top)[k].rule :
     k \in {j \in 1..Len(PreReceivers(Top)) :
              j < Top.idx /\ PreReceivers(Top)[j].h = "all"}}

\* C15 (identity dependency in the pre-phase): the set pre_update_handler
\* stores is the union of the resolvers' results and the changed rows of the
\* rule's own model.
C15_IdentityInPrePhase ==
  InPre =>
    \A i \in PreDone :
      /\ qs[i].has
      /\ qs[i].set = Resolved(alldenorms[i], Top.sender, Changed(db, Top.pks), db)
                       \cup (IF Top.sender = alldenorms[i].model
                             THEN Changed(db, Top.pks) ELSE {})

\* C15 as amended: the set pre_update_handler stores is the union of the
\* resolvers' results alone; the changed rows of the rule's own model are
\* passed to update() by self_update_handler after a bulk update.
C15_ResolversOnly ==
  /\ InPre =>
       \A i \in PreDone :
         /\ qs[i].has
         /\ qs[i].set = Resolved(alldenorms[i], Top.sender, Changed(db, Top.pks), db)
  /\ \A a \in DOMAIN stack :
       (stack[a].kind = "upd" /\ stack[a].caller = "self") =>
         /\ stack[a - 1].op = "bulk"
         /\ stack[a - 1].sender = alldenorms[stack[a].rule].model
         /\ stack[a].pks = Changed(db, stack[a - 1].pks)

\* C15 witness: a row of a rule's own model is about to be changed, the
\* rule's pre_handler has run, and the row is not in the set it stored.
C15_Witness ==
  /\ InPre
  /\ \E i \in PreDone :
       /\ Top.sender = alldenorms[i].model
       /\ Changed(db, Top.pks) # {}
       /\ Changed(db, Top.pks) \cap qs[i].set = {}

\* C16 (update only once): within one operation and its cascade no rule's
\* update() saves the same row more than once.
C16_UpdateOnlyOnce ==
  \A i \in Rules : \A pk \in Ids : saved[i][pk] <= 1

\* C17 (guard state after a failed write): once the error of a save() made
\* by update() has reached the application, no rule has a row left in its
\* self.updating.
C17_GuardAfterFailure ==
  (Idle /\ ops.failed > 0) => \A i \in Rules : updating[i] = {}

====
